---- MODULE Spec2Model ----
(***************************************************************************)
(* Model of the goauth mongo package: the process-wide client singleton    *)
(* (initialize / DB / Check), the generic crudDAO operations and the       *)
(* concurrentDecode pipeline used by FindMany and Aggregate.               *)
(*                                                                         *)
(* Four specifications share the module, one per component:                *)
(*   SpecConn    DB() and Check() called by concurrent goroutines          *)
(*   SpecDecode  one FindMany / Aggregate call with its decode goroutines  *)
(*   SpecCrud    Create, Update, Delete, DeleteMany, FindOne, Exists and   *)
(*               Count against a collection with a unique index            *)
(*   SpecNewDao  NewCrudDAO and the CreateIndexes goroutine it starts      *)
(* and SpecDecodeFair is one FindMany / Aggregate call under a fair        *)
(* scheduler.                                                              *)
(***************************************************************************)
EXTENDS Integers, Sequences, FiniteSets, TLC

VARIABLES
    \* ---- connection singleton (mongo package variables and callers) ----
    clientInstance,       \* var clientInstance *mongo.Client (NoClient = nil)
    singleExecution,      \* var singleExecution sync.Once: [done, m]
    cpc,                  \* position of each calling goroutine
    clientInstanceError,  \* initialize's local error, per caller
    client,               \* the closure's local client, per caller
    ranF,                 \* whether the caller's current call ran the Do body
    arrived,              \* the connection state when the caller's call began
    calls,                \* number of DB() and Check() calls started
    connectAttempts,      \* number of mongo.Connect calls made
    attemptErr,           \* error of the initialization attempt (NoErr if none)
    checkClient,          \* Check's view of clientInstance, per caller
    dbReturns,            \* log of DB() returns
    checkReturns,         \* log of Check() returns
    \* ---- FindMany / Aggregate / concurrentDecode ----
    fpc,                  \* position of the calling goroutine
    cur,                  \* the cursor: [obtained, recs, pos, current, err, closed]
    fetched,              \* records for which cur.Next returned true, in order
    i,                    \* concurrentDecode's sequence index
    indexedRes,           \* map[int]T
    err,                  \* concurrentDecode's shared error variable
    wg,                   \* sync.WaitGroup counter
    mutex,                \* sync.Mutex holder (NoTask when free)
    tasks,                \* the decode goroutines, by dispatch number
    doneOrder,            \* dispatch numbers of the finished goroutines, in order
    cdRet,                \* what concurrentDecode returned
    fmRet,                \* what FindMany / Aggregate returned
    loopLog,              \* history of the fetch loop: cur.Next calls and go
                          \*   statements made while err was already set, and
                          \*   why the loop ended
    \* ---- crudDAO operations on the collection ----
    collection,           \* documents stored in the collection
    createLog,            \* the last call when it was a Create:
                          \*   [called, doc, before, driverErr, ok, err]
    crudLog,              \* the last call when it was another operation:
                          \*   [op, filter, before, driver, ret, ...]
    daos                  \* the engines NewCrudDAO constructs, by number

connVars == <<clientInstance, singleExecution, cpc, clientInstanceError, client,
              ranF, arrived, calls, connectAttempts, attemptErr, checkClient, dbReturns,
              checkReturns>>
decodeVars == <<fpc, cur, fetched, i, indexedRes, err, wg, mutex, tasks,
                doneOrder, cdRet, fmRet, loopLog>>
crudVars == <<collection, createLog, crudLog, daos>>
vars == <<connVars, decodeVars, crudVars>>

----------------------------------------------------------------------------
(* Bounds *)
NumCallers == 2
MaxCalls == 4
MaxRecords == 3
MaxKey == 2
MaxDaos == 2
MaxFairRecords == 2
MaxSkip == 1
MaxLimit == 1
MaxIndexes == 2

----------------------------------------------------------------------------
(* Values *)
NoClient == 0
NoErr == "nil"
Callers == 1..NumCallers
NoCaller == 0
ConnectErrors == {"connect: server selection error", "connect: invalid options"}
PingErrors == {"ping: context deadline exceeded"}
ErrNotInitialized == "mongo client was not initialized"
ErrClientNil == "the mongo client is nil"
ErrCheckFailed == "the mongo check has failed"
MongoDBName == "goauth"

NilDB == [client |-> NoClient, name |-> ""]
\* clientInstance.Database(config.MongoDBName())
Database(cl) == [client |-> cl, name |-> MongoDBName]

----------------------------------------------------------------------------
(* Connection singleton *)


\* The four states of the spec's ConnectionState, read off the code's state:
\* the Once body is running ("connecting") from mongo.Connect until Do completes.
InBody == {"connect", "ping", "assign", "once_done"}
ConnState ==
    IF singleExecution.done
    THEN IF clientInstance # NoClient THEN "ready" ELSE "failed"
    ELSE IF \E c \in Callers : cpc[c] \in InBody THEN "connecting"
    ELSE "uninitialized"

\* A goroutine calls DB(ctx): initialize starts with a nil clientInstanceError.
DBCall(c) ==
    /\ cpc[c] = "idle"
    /\ calls < MaxCalls
    /\ calls' = calls + 1
    /\ clientInstanceError' = [clientInstanceError EXCEPT ![c] = NoErr]
    /\ client' = [client EXCEPT ![c] = NoClient]
    /\ ranF' = [ranF EXCEPT ![c] = FALSE]
    /\ arrived' = [arrived EXCEPT ![c] = ConnState]
    /\ cpc' = [cpc EXCEPT ![c] = "once_do"]
    /\ UNCHANGED <<clientInstance, singleExecution, connectAttempts, attemptErr,
                   checkClient, dbReturns, checkReturns>>
    /\ UNCHANGED <<decodeVars, crudVars>>

\* singleExecution.Do, fast path: a set done flag skips the body.
OnceDoSkipWhenBusy(c) ==
    /\ cpc[c] = "once_do"
    /\ cpc' = [cpc EXCEPT ![c] =
                 IF singleExecution.done \/ singleExecution.m # NoCaller
                 THEN "db_check" ELSE "once_lock"]
    /\ UNCHANGED <<clientInstance, singleExecution, clientInstanceError, client,
                   ranF, calls, connectAttempts, attemptErr, checkClient,
                   dbReturns, checkReturns>>
    /\ UNCHANGED <<arrived, decodeVars, crudVars>>

OnceDo(c) ==
    /\ cpc[c] = "once_do"
    /\ cpc' = [cpc EXCEPT ![c] = IF singleExecution.done THEN "db_check"
                                  ELSE "once_lock"]
    /\ UNCHANGED <<clientInstance, singleExecution, clientInstanceError, client,
                   ranF, calls, connectAttempts, attemptErr, checkClient,
                   dbReturns, checkReturns>>
    /\ UNCHANGED <<arrived, decodeVars, crudVars>>

\* singleExecution.Do, slow path: take the Once's mutex (blocking while another
\* caller holds it), look at done again and run the body only if it is unset.
OnceLockMissingMutex(c) ==
    /\ cpc[c] = "once_lock"
    /\ singleExecution' = [singleExecution EXCEPT !.m = c]
    /\ cpc' = [cpc EXCEPT ![c] = IF singleExecution.done THEN "once_unlock"
                                  ELSE "connect"]
    /\ ranF' = [ranF EXCEPT ![c] = ~singleExecution.done]
    /\ UNCHANGED <<clientInstance, clientInstanceError, client, calls,
                   connectAttempts, attemptErr, checkClient, dbReturns,
                   checkReturns>>
    /\ UNCHANGED <<arrived, decodeVars, crudVars>>

OnceLock(c) ==
    /\ cpc[c] = "once_lock"
    /\ singleExecution.m = NoCaller
    /\ singleExecution' = [singleExecution EXCEPT !.m = c]
    /\ cpc' = [cpc EXCEPT ![c] = IF singleExecution.done THEN "once_unlock"
                                  ELSE "connect"]
    /\ ranF' = [ranF EXCEPT ![c] = ~singleExecution.done]
    /\ UNCHANGED <<clientInstance, clientInstanceError, client, calls,
                   connectAttempts, attemptErr, checkClient, dbReturns,
                   checkReturns>>
    /\ UNCHANGED <<arrived, decodeVars, crudVars>>

\* client, err := mongo.Connect(ctxT, clientOptions): a new client, or an error
\* that is kept in the caller's clientInstanceError and ends the body.
Connect(c) ==
    /\ cpc[c] = "connect"
    /\ connectAttempts' = connectAttempts + 1
    /\ \/ /\ client' = [client EXCEPT ![c] = connectAttempts + 1]
          /\ cpc' = [cpc EXCEPT ![c] = "ping"]
          /\ UNCHANGED <<clientInstanceError, attemptErr>>
       \/ \E e \in ConnectErrors :
          /\ clientInstanceError' = [clientInstanceError EXCEPT ![c] = e]
          /\ attemptErr' = e
          /\ cpc' = [cpc EXCEPT ![c] = "once_done"]
          /\ UNCHANGED client
    /\ UNCHANGED <<clientInstance, singleExecution, ranF, calls, checkClient,
                   dbReturns, checkReturns>>
    /\ UNCHANGED <<arrived, decodeVars, crudVars>>

\* err = client.Ping(ctxT, nil)
Ping(c) ==
    /\ cpc[c] = "ping"
    /\ \/ /\ cpc' = [cpc EXCEPT ![c] = "assign"]
          /\ UNCHANGED <<clientInstanceError, attemptErr>>
       \/ \E e \in PingErrors :
          /\ clientInstanceError' = [clientInstanceError EXCEPT ![c] = e]
          /\ attemptErr' = e
          /\ cpc' = [cpc EXCEPT ![c] = "once_done"]
    /\ UNCHANGED <<clientInstance, singleExecution, client, ranF, calls,
                   connectAttempts, checkClient, dbReturns, checkReturns>>
    /\ UNCHANGED <<arrived, decodeVars, crudVars>>

\* clientInstance = client (after the log line)
Assign(c) ==
    /\ cpc[c] = "assign"
    /\ clientInstance' = client[c]
    /\ cpc' = [cpc EXCEPT ![c] = "once_done"]
    /\ UNCHANGED <<singleExecution, clientInstanceError, client, ranF, calls,
                   connectAttempts, attemptErr, checkClient, dbReturns,
                   checkReturns>>
    /\ UNCHANGED <<arrived, decodeVars, crudVars>>

\* The body has returned: Do's deferred store of the done flag, whatever the
\* body's outcome.
OnceDoneOnlyOnSuccess(c) ==
    /\ cpc[c] = "once_done"
    /\ singleExecution' = [singleExecution EXCEPT
                              !.done = (clientInstance # NoClient)]
    /\ cpc' = [cpc EXCEPT ![c] = "once_unlock"]
    /\ UNCHANGED <<clientInstance, clientInstanceError, client, ranF, calls,
                   connectAttempts, attemptErr, checkClient, dbReturns,
                   checkReturns>>
    /\ UNCHANGED <<arrived, decodeVars, crudVars>>

OnceDone(c) ==
    /\ cpc[c] = "once_done"
    /\ singleExecution' = [singleExecution EXCEPT !.done = TRUE]
    /\ cpc' = [cpc EXCEPT ![c] = "once_unlock"]
    /\ UNCHANGED <<clientInstance, clientInstanceError, client, ranF, calls,
                   connectAttempts, attemptErr, checkClient, dbReturns,
                   checkReturns>>
    /\ UNCHANGED <<arrived, decodeVars, crudVars>>

\* Do's deferred unlock of the Once's mutex; Do and initialize return.
OnceUnlock(c) ==
    /\ cpc[c] = "once_unlock"
    /\ singleExecution' = [singleExecution EXCEPT !.m = NoCaller]
    /\ cpc' = [cpc EXCEPT ![c] = "db_check"]
    /\ UNCHANGED <<clientInstance, clientInstanceError, client, ranF, calls,
                   connectAttempts, attemptErr, checkClient, dbReturns,
                   checkReturns>>
    /\ UNCHANGED <<arrived, decodeVars, crudVars>>

\* What DB returns once initialize has returned e, with clientInstance = ci.
DBResultNilWithoutError(e, ci) ==
    IF e # NoErr THEN [handle |-> NilDB, err |-> e]
    ELSE IF ci = NoClient THEN [handle |-> NilDB, err |-> NoErr]
    ELSE [handle |-> Database(ci), err |-> NoErr]

DBResult(e, ci) ==
    IF e # NoErr THEN [handle |-> NilDB, err |-> e]
    ELSE IF ci = NoClient THEN [handle |-> NilDB, err |-> ErrNotInitialized]
    ELSE [handle |-> Database(ci), err |-> NoErr]

\* DB after initialize: the error check, the nil check and the return.
DBReturn(c) ==
    /\ cpc[c] = "db_check"
    /\ LET r == DBResult(clientInstanceError[c], clientInstance)
       IN dbReturns' = dbReturns \cup
              {[ran |-> ranF[c], arrived |-> arrived[c],
                handle |-> r.handle, err |-> r.err, state |-> ConnState]}
    /\ cpc' = [cpc EXCEPT ![c] = "idle"]
    /\ UNCHANGED <<clientInstance, singleExecution, clientInstanceError, client,
                   ranF, calls, connectAttempts, attemptErr, checkClient,
                   checkReturns>>
    /\ UNCHANGED <<arrived, decodeVars, crudVars>>

\* The errors Check returns for the client it read and its ping's outcome
\* (pingErr is NoErr when the ping succeeded or none was made).
CheckErrsSilent(ci, pingErr) ==
    IF ci = NoClient THEN <<[msg |-> ErrClientNil, cause |-> NoErr]>>
    ELSE <<>>

CheckErrs(ci, pingErr) ==
    IF ci = NoClient THEN <<[msg |-> ErrClientNil, cause |-> NoErr]>>
    ELSE IF pingErr # NoErr THEN <<[msg |-> ErrCheckFailed, cause |-> pingErr]>>
    ELSE <<>>

\* A goroutine calls Check(): the read of clientInstance and, when it is nil,
\* the return of the single error.
\* The read is unsynchronized: of a pointer written at most once, it yields
\* nil or the client, as the interleaving of this step with Assign decides.
CheckCall(c) ==
    /\ cpc[c] = "idle"
    /\ calls < MaxCalls
    /\ calls' = calls + 1
    /\ checkClient' = [checkClient EXCEPT ![c] = clientInstance]
    /\ arrived' = [arrived EXCEPT ![c] = ConnState]
    /\ IF clientInstance = NoClient
       THEN /\ checkReturns' = checkReturns \cup
                   {[client |-> NoClient, pinged |-> FALSE,
                     pingErr |-> NoErr, errs |-> CheckErrs(NoClient, NoErr),
                     arrived |-> ConnState]}
            /\ cpc' = cpc
       ELSE /\ cpc' = [cpc EXCEPT ![c] = "check_ping"]
            /\ UNCHANGED checkReturns
    /\ UNCHANGED <<clientInstance, singleExecution, clientInstanceError, client,
                   ranF, connectAttempts, attemptErr, dbReturns>>
    /\ UNCHANGED <<decodeVars, crudVars>>

\* clientInstance.Ping(ctx, readpref.Primary()) and the return of Check.
CheckPingDropsClient(c) ==
    /\ cpc[c] = "check_ping"
    /\ \E e \in PingErrors \cup {NoErr} :
          /\ checkReturns' = checkReturns \cup
                {[client |-> checkClient[c], pinged |-> TRUE,
                  pingErr |-> e, errs |-> CheckErrs(checkClient[c], e),
                  arrived |-> arrived[c]]}
          /\ clientInstance' = IF e # NoErr THEN NoClient ELSE clientInstance
    /\ cpc' = [cpc EXCEPT ![c] = "idle"]
    /\ UNCHANGED <<singleExecution, clientInstanceError, client,
                   ranF, calls, connectAttempts, attemptErr, checkClient,
                   dbReturns>>
    /\ UNCHANGED <<arrived, decodeVars, crudVars>>

CheckPing(c) ==
    /\ cpc[c] = "check_ping"
    /\ \E e \in PingErrors \cup {NoErr} :
          checkReturns' = checkReturns \cup
              {[client |-> checkClient[c], pinged |-> TRUE,
                pingErr |-> e, errs |-> CheckErrs(checkClient[c], e),
                arrived |-> arrived[c]]}
    /\ cpc' = [cpc EXCEPT ![c] = "idle"]
    /\ UNCHANGED <<clientInstance, singleExecution, clientInstanceError, client,
                   ranF, calls, connectAttempts, attemptErr, checkClient,
                   dbReturns>>
    /\ UNCHANGED <<arrived, decodeVars, crudVars>>

ConnNext ==
    \E c \in Callers :
        \/ DBCall(c)
        \/ OnceDo(c)
        \/ OnceLock(c)
        \/ Connect(c)
        \/ Ping(c)
        \/ Assign(c)
        \/ OnceDone(c)
        \/ OnceUnlock(c)
        \/ DBReturn(c)
        \/ CheckCall(c)
        \/ CheckPing(c)

----------------------------------------------------------------------------
(* FindMany / Aggregate and concurrentDecode *)

\* Raw records a cursor can deliver; the malformed ones do not decode into T.
RawRecords == {"a", "b", "x", "y"}
Malformed == {"x", "y"}
ZeroDoc == [value |-> ""]
NoTask == -1
\* A Go error is an interface value of two words, the dynamic type and the
\* data. It is nil when its type word is nil. The goroutines of concurrentDecode
\* write the shared err without synchronization, one word at a time, so two
\* of them can leave the type word of one error with the data word of another.
GoError(typ, data) == [typ |-> typ, data |-> data]
NilErr == GoError(NoErr, NoErr)
ErrFind == GoError("find", "command failed")
ErrCursor == GoError("cursor", "getMore failed")
ErrClose == GoError("cursor", "close failed")
NilDocs == [isNil |-> TRUE, docs |-> <<>>]
EmptyMap == [k \in {} |-> ZeroDoc]

RECURSIVE SeqsUpTo(_, _)
SeqsUpTo(S, n) ==
    IF n = 0 THEN {<<>>}
    ELSE LET shorter == SeqsUpTo(S, n - 1)
         IN shorter \cup {Append(s, x) : s \in shorter, x \in S}

\* cur.Decode(r): the typed document of a raw record, or a decode error.
Decode(raw) ==
    IF raw \in Malformed
    THEN [ok |-> FALSE, doc |-> ZeroDoc,
          err |-> GoError("decode " \o raw, "cannot unmarshal " \o raw)]
    ELSE [ok |-> TRUE, doc |-> [value |-> raw], err |-> NilErr]

NoCursor == [obtained |-> FALSE, recs |-> <<>>, pos |-> 0, current |-> "",
             err |-> NilErr, closed |-> FALSE]


\* dao.collection.Find / dao.collection.Aggregate: an error returns (nil, err)
\* at once; otherwise concurrentDecode starts on the cursor with i = -1, an
\* empty indexedRes and a nil err.
FindCall ==
    /\ fpc = "start"
    /\ \/ /\ fmRet' = [returned |-> TRUE, res |-> NilDocs, err |-> ErrFind]
          /\ fpc' = "done"
          /\ UNCHANGED cur
       \/ \E recs \in SeqsUpTo(RawRecords, MaxRecords) :
          /\ cur' = [NoCursor EXCEPT !.obtained = TRUE, !.recs = recs]
          /\ fpc' = "next"
          /\ UNCHANGED fmRet
    /\ UNCHANGED <<fetched, i, indexedRes, err, wg, mutex, tasks, cdRet>>
    /\ UNCHANGED <<doneOrder, loopLog, connVars, crudVars>>

\* The same call over the short cursors used to check termination.
FindCallShort ==
    /\ fpc = "start"
    /\ \/ /\ fmRet' = [returned |-> TRUE, res |-> NilDocs, err |-> ErrFind]
          /\ fpc' = "done"
          /\ UNCHANGED cur
       \/ \E recs \in SeqsUpTo(RawRecords, MaxFairRecords) :
          /\ cur' = [NoCursor EXCEPT !.obtained = TRUE, !.recs = recs]
          /\ fpc' = "next"
          /\ UNCHANGED fmRet
    /\ UNCHANGED <<fetched, i, indexedRes, err, wg, mutex, tasks, cdRet>>
    /\ UNCHANGED <<doneOrder, loopLog, connVars, crudVars>>

\* cur.Next(ctx), the loop condition: the next record becomes cur.Current, or
\* the loop ends because the stream is exhausted or the fetch failed.
\* 1 when the shared err already holds a decode failure, else 0.
ErrSetNow == IF err.typ # NoErr THEN 1 ELSE 0
NoLoopLog == [nextAfterErr |-> 0, goAfterErr |-> 0, ended |-> ""]

CurNext ==
    /\ fpc = "next"
    /\ \/ /\ cur.pos < Len(cur.recs)
          /\ cur' = [cur EXCEPT !.pos = @ + 1, !.current = cur.recs[cur.pos + 1]]
          /\ fetched' = Append(fetched, cur.recs[cur.pos + 1])
          /\ fpc' = "body"
          /\ loopLog' = [loopLog EXCEPT !.nextAfterErr = @ + ErrSetNow]
       \/ /\ cur.pos = Len(cur.recs)
          /\ fpc' = "wait"
          /\ loopLog' = [loopLog EXCEPT !.nextAfterErr = @ + ErrSetNow,
                                        !.ended = "exhausted"]
          /\ UNCHANGED <<cur, fetched>>
       \/ /\ cur' = [cur EXCEPT !.err = ErrCursor]
          /\ fpc' = "wait"
          /\ loopLog' = [loopLog EXCEPT !.nextAfterErr = @ + ErrSetNow,
                                        !.ended = "fetch failed"]
          /\ UNCHANGED fetched
    /\ UNCHANGED <<i, indexedRes, err, wg, mutex, tasks, cdRet, fmRet>>
    /\ UNCHANGED <<doneOrder, connVars, crudVars>>

\* The goroutine started for record number n with the cursor copy's record.
NewTask(raw, n) == [pc |-> "decode", cur |-> raw, i |-> n, r |-> ZeroDoc,
                    decodeError |-> NilErr, wroteErr |-> FALSE]

\* if err != nil { break }: an unsynchronized read of err at the top of the
\* loop body.
LoopBodyNeverBreaks ==
    /\ fpc = "body"
    /\ fpc' = "dispatch"
    /\ UNCHANGED loopLog
    /\ UNCHANGED <<cur, fetched, i, indexedRes, err, wg, mutex, tasks, cdRet,
                   fmRet>>
    /\ UNCHANGED <<doneOrder, connVars, crudVars>>

LoopBody ==
    /\ fpc = "body"
    /\ IF err.typ # NoErr
       THEN /\ fpc' = "wait"
            /\ loopLog' = [loopLog EXCEPT !.ended = "break"]
       ELSE /\ fpc' = "dispatch"
            /\ UNCHANGED loopLog
    /\ UNCHANGED <<cur, fetched, i, indexedRes, err, wg, mutex, tasks, cdRet,
                   fmRet>>
    /\ UNCHANGED <<doneOrder, connVars, crudVars>>

\* The rest of the loop body: wg.Add(1), copyCur := *cur, i++ and the go
\* statement.
Dispatch ==
    /\ fpc = "dispatch"
    /\ wg' = wg + 1
    /\ i' = i + 1
    /\ tasks' = [k \in DOMAIN tasks \cup {i + 1} |->
                   IF k = i + 1 THEN NewTask(cur.current, i + 1)
                   ELSE tasks[k]]
    /\ fpc' = "next"
    /\ loopLog' = [loopLog EXCEPT !.goAfterErr = @ + ErrSetNow]
    /\ UNCHANGED <<cur, fetched, indexedRes, err, mutex, cdRet, fmRet>>
    /\ UNCHANGED <<doneOrder, connVars, crudVars>>

\* r := new(T); decodeError := cur.Decode(r)
TaskDecode(t) ==
    /\ tasks[t].pc = "decode"
    /\ LET d == Decode(tasks[t].cur)
       IN tasks' = [tasks EXCEPT ![t] =
                      IF d.ok THEN [@ EXCEPT !.pc = "lock", !.r = d.doc]
                      ELSE [@ EXCEPT !.pc = "err_check", !.decodeError = d.err]]
    /\ UNCHANGED <<fpc, cur, fetched, i, indexedRes, err, wg, mutex, cdRet,
                   fmRet>>
    /\ UNCHANGED <<doneOrder, loopLog, connVars, crudVars>>

\* if err == nil (unsynchronized read); when err is already set the goroutine
\* returns.
TaskErrCheckReturnsWithoutDone(t) ==
    /\ tasks[t].pc = "err_check"
    /\ IF err.typ = NoErr
       THEN tasks' = [tasks EXCEPT ![t].pc = "err_set"]
       ELSE tasks' = [tasks EXCEPT ![t].pc = "done"]
    /\ UNCHANGED <<fpc, cur, fetched, i, indexedRes, err, wg, mutex, cdRet,
                   fmRet>>
    /\ UNCHANGED <<doneOrder, loopLog, connVars, crudVars>>

TaskErrCheck(t) ==
    /\ tasks[t].pc = "err_check"
    /\ IF err.typ = NoErr
       THEN tasks' = [tasks EXCEPT ![t].pc = "err_set"]
       ELSE tasks' = [tasks EXCEPT ![t].pc = "return"]
    /\ UNCHANGED <<fpc, cur, fetched, i, indexedRes, err, wg, mutex, cdRet,
                   fmRet>>
    /\ UNCHANGED <<doneOrder, loopLog, connVars, crudVars>>

\* err = decodeError (unsynchronized write): the type word.
TaskErrSet(t) ==
    /\ tasks[t].pc = "err_set"
    /\ err' = [err EXCEPT !.typ = tasks[t].decodeError.typ]
    /\ tasks' = [tasks EXCEPT ![t].pc = "err_set_data"]
    /\ UNCHANGED <<fpc, cur, fetched, i, indexedRes, wg, mutex, cdRet, fmRet>>
    /\ UNCHANGED <<doneOrder, loopLog, connVars, crudVars>>

\* err = decodeError: the data word; return.
TaskErrSetData(t) ==
    /\ tasks[t].pc = "err_set_data"
    /\ err' = [err EXCEPT !.data = tasks[t].decodeError.data]
    /\ tasks' = [tasks EXCEPT ![t].pc = "return", ![t].wroteErr = TRUE]
    /\ UNCHANGED <<fpc, cur, fetched, i, indexedRes, wg, mutex, cdRet, fmRet>>
    /\ UNCHANGED <<doneOrder, loopLog, connVars, crudVars>>

\* mutex.Lock()
TaskLock(t) ==
    /\ tasks[t].pc = "lock"
    /\ mutex = NoTask
    /\ mutex' = t
    /\ tasks' = [tasks EXCEPT ![t].pc = "store"]
    /\ UNCHANGED <<fpc, cur, fetched, i, indexedRes, err, wg, cdRet, fmRet>>
    /\ UNCHANGED <<doneOrder, loopLog, connVars, crudVars>>

\* The map after indexedRes[k] = doc.
MapStoreAppend(m, k, doc) ==
    [j \in DOMAIN m \cup {Cardinality(DOMAIN m)} |->
        IF j = Cardinality(DOMAIN m) THEN doc ELSE m[j]]

MapStore(m, k, doc) ==
    [j \in DOMAIN m \cup {k} |-> IF j = k THEN doc ELSE m[j]]

\* indexedRes[i] = *r
TaskStore(t) ==
    /\ tasks[t].pc = "store"
    /\ indexedRes' = MapStore(indexedRes, tasks[t].i, tasks[t].r)
    /\ tasks' = [tasks EXCEPT ![t].pc = "unlock"]
    /\ UNCHANGED <<fpc, cur, fetched, i, err, wg, mutex, cdRet, fmRet>>
    /\ UNCHANGED <<doneOrder, loopLog, connVars, crudVars>>

\* mutex.Unlock(); the goroutine then returns.
TaskUnlock(t) ==
    /\ tasks[t].pc = "unlock"
    /\ mutex' = NoTask
    /\ tasks' = [tasks EXCEPT ![t].pc = "return"]
    /\ UNCHANGED <<fpc, cur, fetched, i, indexedRes, err, wg, cdRet, fmRet>>
    /\ UNCHANGED <<doneOrder, loopLog, connVars, crudVars>>

\* defer wg.Done(): runs when the goroutine returns, on each of its paths.
TaskDone(t) ==
    /\ tasks[t].pc = "return"
    /\ tasks' = [tasks EXCEPT ![t].pc = "done"]
    /\ wg' = wg - 1
    /\ doneOrder' = Append(doneOrder, t)
    /\ UNCHANGED <<fpc, cur, fetched, i, indexedRes, err, mutex, cdRet, fmRet>>
    /\ UNCHANGED <<loopLog, connVars, crudVars>>

\* wg.Wait(): blocks until the counter is zero.
WaitWithoutBlocking ==
    /\ fpc = "wait"
    /\ fpc' = "collect"
    /\ UNCHANGED <<cur, fetched, i, indexedRes, err, wg, mutex, tasks, cdRet,
                   fmRet>>
    /\ UNCHANGED <<doneOrder, loopLog, connVars, crudVars>>

Wait ==
    /\ fpc = "wait"
    /\ wg = 0
    /\ fpc' = "collect"
    /\ UNCHANGED <<cur, fetched, i, indexedRes, err, wg, mutex, tasks, cdRet,
                   fmRet>>
    /\ UNCHANGED <<doneOrder, loopLog, connVars, crudVars>>

\* res[j] = indexedRes[j] for j = 0 .. len(indexedRes)-1 (a missing key reads
\* as the zero value of T).
Materialize(m) ==
    [j \in 1..Cardinality(DOMAIN m) |->
        IF (j - 1) \in DOMAIN m THEN m[j - 1] ELSE ZeroDoc]

\* What concurrentDecode returns for the final err and indexedRes.
DecodeResultIgnoringErr(e, m) ==
    [returned |-> TRUE, res |-> [isNil |-> FALSE, docs |-> Materialize(m)],
     err |-> NilErr]

DecodeResult(e, m) ==
    IF e.typ # NoErr THEN [returned |-> TRUE, res |-> NilDocs, err |-> e]
    ELSE [returned |-> TRUE, res |-> [isNil |-> FALSE, docs |-> Materialize(m)],
          err |-> NilErr]

\* The end of concurrentDecode after wg.Wait() and the caller's check of its
\* error: a decode error makes FindMany / Aggregate return (nil, err).
Collect ==
    /\ fpc = "collect"
    /\ cdRet' = DecodeResult(err, indexedRes)
    /\ IF cdRet'.err.typ # NoErr
       THEN /\ fmRet' = [returned |-> TRUE, res |-> NilDocs, err |-> cdRet'.err]
            /\ fpc' = "done"
       ELSE /\ fpc' = "cur_err"
            /\ UNCHANGED fmRet
    /\ UNCHANGED <<cur, fetched, i, indexedRes, err, wg, mutex, tasks>>
    /\ UNCHANGED <<doneOrder, loopLog, connVars, crudVars>>

\* if err = cur.Err(); err != nil { return nil, err }
CurErrCheckSkipped ==
    /\ fpc = "cur_err"
    /\ fpc' = "close"
    /\ UNCHANGED fmRet
    /\ UNCHANGED <<cur, fetched, i, indexedRes, err, wg, mutex, tasks, cdRet>>
    /\ UNCHANGED <<doneOrder, loopLog, connVars, crudVars>>

CurErrCheck ==
    /\ fpc = "cur_err"
    /\ IF cur.err.typ # NoErr
       THEN /\ fmRet' = [returned |-> TRUE, res |-> NilDocs, err |-> cur.err]
            /\ fpc' = "done"
       ELSE /\ fpc' = "close"
            /\ UNCHANGED fmRet
    /\ UNCHANGED <<cur, fetched, i, indexedRes, err, wg, mutex, tasks, cdRet>>
    /\ UNCHANGED <<doneOrder, loopLog, connVars, crudVars>>

\* if err = cur.Close(ctx); err != nil { return nil, err }; return res, nil.
\* The cursor counts as closed once Close has been called on it.
CurClose ==
    /\ fpc = "close"
    /\ cur' = [cur EXCEPT !.closed = TRUE]
    /\ \/ fmRet' = [returned |-> TRUE, res |-> NilDocs, err |-> ErrClose]
       \/ fmRet' = [returned |-> TRUE, res |-> cdRet.res, err |-> NilErr]
    /\ fpc' = "done"
    /\ UNCHANGED <<fetched, i, indexedRes, err, wg, mutex, tasks, cdRet>>
    /\ UNCHANGED <<doneOrder, loopLog, connVars, crudVars>>

DecodeNext ==
    \/ FindCall
    \/ CurNext
    \/ LoopBody
    \/ Dispatch
    \/ Wait
    \/ Collect
    \/ CurErrCheck
    \/ CurClose
    \/ \E t \in DOMAIN tasks : TaskDecode(t)
    \/ \E t \in DOMAIN tasks : TaskErrCheck(t)
    \/ \E t \in DOMAIN tasks : TaskErrSet(t)
    \/ \E t \in DOMAIN tasks : TaskErrSetData(t)
    \/ \E t \in DOMAIN tasks : TaskLock(t)
    \/ \E t \in DOMAIN tasks : TaskStore(t)
    \/ \E t \in DOMAIN tasks : TaskUnlock(t)
    \/ \E t \in DOMAIN tasks : TaskDone(t)

----------------------------------------------------------------------------
(* Create *)

Keys == 1..MaxKey
Values == {"v", "w"}
\* Documents of a type whose Indexes() declare a unique index on key.
\* The zero time.Time: the value of a CreatedAt / UpdatedAt field nobody set.
ZeroTime == 0
\* The documents callers hand to Create: typed values of T, whose CreatedAt and
\* UpdatedAt the caller leaves for the DAO to set.
Docs == [key : Keys, val : Values, createdAt : {ZeroTime}, updatedAt : {ZeroTime}]
ErrDuplicateKey == "E11000 duplicate key error"
ErrWrite == "write: connection reset"
ErrNoDocuments == "mongo: no documents in result"
NoDoc == [key |-> 0, val |-> "", createdAt |-> ZeroTime, updatedAt |-> ZeroTime]
NoCall == [op |-> "none"]
NoCreate == [called |-> FALSE, doc |-> NoDoc, before |-> {},
             driverErr |-> NoErr, ok |-> FALSE, err |-> NoErr]


\* What Create returns for the error of dao.collection.InsertOne.
CreateResultDupAsError(e) ==
    IF e = NoErr THEN [ok |-> TRUE, err |-> NoErr]
    ELSE [ok |-> FALSE, err |-> e]

CreateResult(e) ==
    IF e = NoErr THEN [ok |-> TRUE, err |-> NoErr]
    ELSE IF e = ErrDuplicateKey THEN [ok |-> FALSE, err |-> NoErr]
    ELSE [ok |-> FALSE, err |-> e]

\* Create(ctx, t): InsertOne stores the document, or rejects it with a
\* duplicate key error when the unique key is taken, or fails otherwise.
Create(d) ==
    \E e \in {NoErr, ErrDuplicateKey, ErrWrite} :
        /\ e = NoErr => \A x \in collection : x.key # d.key
        /\ e = ErrDuplicateKey => \E x \in collection : x.key = d.key
        /\ collection' = IF e = NoErr THEN collection \cup {d} ELSE collection
        /\ LET r == CreateResult(e)
           IN createLog' = [called |-> TRUE, doc |-> d, before |-> collection,
                            driverErr |-> e, ok |-> r.ok, err |-> r.err]
        /\ crudLog' = NoCall
        /\ UNCHANGED <<daos, connVars, decodeVars>>

----------------------------------------------------------------------------
(* Update, Delete, FindOne, Exists, Count *)

\* A value of a BSON type that T's val field does not decode from; an update
\* document (bson.M) can $set it.
BadValue == "!"
StoredValues == Values \cup {BadValue}
\* filter bson.M: every document ({}), or the documents with a given key.
Filters == {[all |-> TRUE, key |-> 0]} \cup {[all |-> FALSE, key |-> k] : k \in Keys}
Matches(f, coll) == {d \in coll : f.all \/ d.key = f.key}
\* update bson.M: {"$set": {key, val}}.
Patches == [key : Keys, val : StoredValues]
\* The document after the update is applied: the fields the update names.
ApplyPatch(d, u) == [d EXCEPT !.key = u.key, !.val = u.val]
\* The document an upsert inserts: the fields of the update, nothing else.
UpsertDoc(u) == [key |-> u.key, val |-> u.val, createdAt |-> ZeroTime,
                 updatedAt |-> ZeroTime]
KeyTaken(coll, k) == \E x \in coll : x.key = k

UpdateFailed(e, coll) ==
    [err |-> e, matched |-> 0, modified |-> 0, upserted |-> 0, coll |-> coll,
     target |-> NoDoc]

\* dao.collection.UpdateOne(ctx, filter, update, opts): the possible answers
\* of the store, with the collection afterwards and the document written.
UpdateOne(coll, f, u, withUpsert) ==
    {UpdateFailed(ErrWrite, coll)} \cup
    IF Matches(f, coll) = {}
    THEN IF ~withUpsert
         THEN {[err |-> NoErr, matched |-> 0, modified |-> 0, upserted |-> 0,
                coll |-> coll, target |-> NoDoc]}
         ELSE IF KeyTaken(coll, u.key)
         THEN {UpdateFailed(ErrDuplicateKey, coll)}
         ELSE {[err |-> NoErr, matched |-> 0, modified |-> 0, upserted |-> 1,
                coll |-> coll \cup {UpsertDoc(u)}, target |-> UpsertDoc(u)]}
    ELSE {IF ApplyPatch(d, u) = d
          THEN [err |-> NoErr, matched |-> 1, modified |-> 0, upserted |-> 0,
                coll |-> coll, target |-> d]
          ELSE IF KeyTaken(coll \ {d}, u.key)
          THEN UpdateFailed(ErrDuplicateKey, coll)
          ELSE [err |-> NoErr, matched |-> 1, modified |-> 1, upserted |-> 0,
                coll |-> (coll \ {d}) \cup {ApplyPatch(d, u)},
                target |-> ApplyPatch(d, u)] : d \in Matches(f, coll)}

NoFlags == [NotFound |-> FALSE, UniqueError |-> FALSE, Inserted |-> FALSE]

\* What Update returns for the answer ur of UpdateOne.
UpdateResultFlagsFromCounts(ur, withUpsert) ==
    IF ur.err = ErrDuplicateKey
    THEN [res |-> [NoFlags EXCEPT !.UniqueError = TRUE], err |-> NoErr]
    ELSE IF ur.err # NoErr THEN [res |-> NoFlags, err |-> ur.err]
    ELSE [res |-> [NoFlags EXCEPT !.NotFound = (ur.matched = 0),
                                  !.Inserted = (ur.upserted = 1)],
          err |-> NoErr]

UpdateResultWithoutNotFound(ur, withUpsert) ==
    IF ur.err = ErrDuplicateKey
    THEN [res |-> [NoFlags EXCEPT !.UniqueError = TRUE], err |-> NoErr]
    ELSE IF ur.err # NoErr THEN [res |-> NoFlags, err |-> ur.err]
    ELSE [res |-> [NoFlags EXCEPT !.Inserted = (ur.upserted = 1)], err |-> NoErr]

UpdateResult(ur, withUpsert) ==
    IF ur.err = ErrDuplicateKey
    THEN [res |-> [NoFlags EXCEPT !.UniqueError = TRUE], err |-> NoErr]
    ELSE IF ur.err # NoErr THEN [res |-> NoFlags, err |-> ur.err]
    ELSE IF ~withUpsert /\ ur.matched = 0
    THEN [res |-> [NoFlags EXCEPT !.NotFound = TRUE], err |-> NoErr]
    ELSE [res |-> [NoFlags EXCEPT !.Inserted = (ur.upserted = 1)], err |-> NoErr]

\* Update(ctx, filter, update, withUpsert)
Update(f, u, withUpsert) ==
    \E ur \in UpdateOne(collection, f, u, withUpsert) :
        /\ collection' = ur.coll
        /\ crudLog' = [op |-> "Update", filter |-> f, update |-> u,
                       withUpsert |-> withUpsert, before |-> collection,
                       driver |-> ur, ret |-> UpdateResult(ur, withUpsert)]
        /\ createLog' = NoCreate
        /\ UNCHANGED <<daos, connVars, decodeVars>>

\* dao.collection.DeleteOne(ctx, filter): the possible answers of the store.
DeleteOne(coll, f) ==
    {[err |-> ErrWrite, deleted |-> 0, coll |-> coll, victim |-> NoDoc]} \cup
    IF Matches(f, coll) = {}
    THEN {[err |-> e, deleted |-> 0, coll |-> coll, victim |-> NoDoc] :
             e \in {NoErr, ErrNoDocuments}}
    ELSE {[err |-> NoErr, deleted |-> 1, coll |-> coll \ {d}, victim |-> d] :
             d \in Matches(f, coll)}

\* What Delete returns for the answer dr of DeleteOne.
DeleteResultIgnoringCount(dr) ==
    IF dr.err = ErrNoDocuments THEN [ok |-> FALSE, err |-> NoErr]
    ELSE IF dr.err # NoErr THEN [ok |-> FALSE, err |-> dr.err]
    ELSE [ok |-> TRUE, err |-> NoErr]

DeleteResult(dr) ==
    IF dr.err = ErrNoDocuments THEN [ok |-> FALSE, err |-> NoErr]
    ELSE IF dr.err # NoErr THEN [ok |-> FALSE, err |-> dr.err]
    ELSE IF dr.deleted = 0 THEN [ok |-> FALSE, err |-> NoErr]
    ELSE [ok |-> TRUE, err |-> NoErr]

\* Delete(ctx, filter)
Delete(f) ==
    \E dr \in DeleteOne(collection, f) :
        /\ collection' = dr.coll
        /\ crudLog' = [op |-> "Delete", filter |-> f, before |-> collection,
                       driver |-> dr, ret |-> DeleteResult(dr)]
        /\ createLog' = NoCreate
        /\ UNCHANGED <<daos, connVars, decodeVars>>

\* dao.collection.DeleteMany(ctx, filter): every matching document is removed,
\* or the call fails.
DeleteManyDocs(coll, f) ==
    {[err |-> ErrWrite, deleted |-> 0, coll |-> coll],
     [err |-> NoErr, deleted |-> Cardinality(Matches(f, coll)),
      coll |-> coll \ Matches(f, coll)]}

\* What DeleteMany returns for the answer dr of the store.
DeleteManyResult(dr) ==
    IF dr.err # NoErr THEN [count |-> 0, err |-> dr.err]
    ELSE [count |-> dr.deleted, err |-> NoErr]

\* DeleteMany(ctx, filter)
DeleteMany(f) ==
    \E dr \in DeleteManyDocs(collection, f) :
        /\ collection' = dr.coll
        /\ crudLog' = [op |-> "DeleteMany", filter |-> f, before |-> collection,
                       driver |-> dr, ret |-> DeleteManyResult(dr)]
        /\ createLog' = NoCreate
        /\ UNCHANGED <<daos, connVars, decodeVars>>

\* sr.Decode(res): a stored document as a value of T, or a decode error.
ErrDecode == "decode: cannot unmarshal into T"
DecodeDoc(d) ==
    IF d.val = BadValue THEN [ok |-> FALSE, doc |-> NoDoc, err |-> ErrDecode]
    ELSE [ok |-> TRUE, doc |-> d, err |-> NoErr]

\* opts *options.FindOneOptions: documents to skip and the projection (nil
\* options skip nothing and project nothing away).
FindOneOptions == [skip : 0..MaxSkip, projection : {"all", "key"}]
\* The document the store returns under a projection: a field projected away
\* is absent and decodes to the zero value.
Project(d, o) ==
    IF o.projection = "all" THEN d ELSE [d EXCEPT !.val = ""]

\* dao.collection.FindOne(ctx, filter, opts): a matching document (any of
\* them, in the store's or the sort's order, once more match than are
\* skipped), the no-documents error when none is left, or a failure of the
\* query.
FindOneSingle(coll, f, o) ==
    {[err |-> ErrWrite, found |-> NoDoc]} \cup
    IF Cardinality(Matches(f, coll)) <= o.skip
    THEN {[err |-> ErrNoDocuments, found |-> NoDoc]}
    ELSE {[err |-> NoErr, found |-> Project(d, o)] : d \in Matches(f, coll)}

\* What FindOne returns for the single result sr.
FindOneResultKeepsPartial(sr) ==
    IF sr.err = ErrNoDocuments THEN [isNil |-> TRUE, doc |-> NoDoc, err |-> NoErr]
    ELSE IF sr.err # NoErr THEN [isNil |-> TRUE, doc |-> NoDoc, err |-> sr.err]
    ELSE [isNil |-> FALSE, doc |-> DecodeDoc(sr.found).doc,
          err |-> DecodeDoc(sr.found).err]

FindOneResult(sr) ==
    IF sr.err = ErrNoDocuments THEN [isNil |-> TRUE, doc |-> NoDoc, err |-> NoErr]
    ELSE IF sr.err # NoErr THEN [isNil |-> TRUE, doc |-> NoDoc, err |-> sr.err]
    ELSE IF ~DecodeDoc(sr.found).ok
    THEN [isNil |-> TRUE, doc |-> NoDoc, err |-> DecodeDoc(sr.found).err]
    ELSE [isNil |-> FALSE, doc |-> DecodeDoc(sr.found).doc, err |-> NoErr]

\* FindOne(ctx, filter, opts)
FindOne(f, o) ==
    \E sr \in FindOneSingle(collection, f, o) :
        /\ crudLog' = [op |-> "FindOne", filter |-> f, opts |-> o,
                       before |-> collection,
                       driver |-> sr, ret |-> FindOneResult(sr)]
        /\ createLog' = NoCreate
        /\ UNCHANGED <<collection, daos, connVars, decodeVars>>

\* opts *options.CountOptions: documents to skip and the most to count (limit
\* 0: no limit set). Count passes no options.
CountOptions == [skip : 0..MaxSkip, limit : 0..MaxLimit]
NoCountOptions == [skip |-> 0, limit |-> 0]
\* The count of n matching documents under the options.
CountWith(n, o) ==
    LET left == IF n > o.skip THEN n - o.skip ELSE 0
    IN IF o.limit > 0 /\ left > o.limit THEN o.limit ELSE left

\* dao.collection.CountDocuments(ctx, filter, opts): the number of matching
\* documents under the options, or a failure (the no-documents error only
\* when nothing is counted).
CountDocuments(coll, f, o) ==
    {[err |-> ErrWrite, count |-> 0]} \cup
    {[err |-> NoErr, count |-> CountWith(Cardinality(Matches(f, coll)), o)]} \cup
    IF CountWith(Cardinality(Matches(f, coll)), o) = 0
    THEN {[err |-> ErrNoDocuments, count |-> 0]} ELSE {}

\* What Exists returns for the answer cr of CountDocuments.
ExistsResultCountNotNegative(cr) ==
    IF cr.err = ErrNoDocuments THEN [ok |-> FALSE, err |-> NoErr]
    ELSE IF cr.err # NoErr THEN [ok |-> FALSE, err |-> cr.err]
    ELSE [ok |-> cr.count >= 0, err |-> NoErr]

ExistsResult(cr) ==
    IF cr.err = ErrNoDocuments THEN [ok |-> FALSE, err |-> NoErr]
    ELSE IF cr.err # NoErr THEN [ok |-> FALSE, err |-> cr.err]
    ELSE [ok |-> cr.count > 0, err |-> NoErr]

\* What Count returns for the answer cr of CountDocuments.
CountResult(cr) == IF cr.err # NoErr THEN -1 ELSE cr.count

\* Exists(ctx, filter, opts)
Exists(f, o) ==
    \E cr \in CountDocuments(collection, f, o) :
        /\ crudLog' = [op |-> "Exists", filter |-> f, opts |-> o,
                       before |-> collection,
                       driver |-> cr, ret |-> ExistsResult(cr)]
        /\ createLog' = NoCreate
        /\ UNCHANGED <<collection, daos, connVars, decodeVars>>

\* Count(ctx, filter)
Count(f) ==
    \E cr \in CountDocuments(collection, f, NoCountOptions) :
        /\ crudLog' = [op |-> "Count", filter |-> f, before |-> collection,
                       driver |-> cr, ret |-> CountResult(cr)]
        /\ createLog' = NoCreate
        /\ UNCHANGED <<collection, daos, connVars, decodeVars>>

CrudNext ==
    \/ \E d \in Docs : Create(d)
    \/ \E f \in Filters, u \in Patches, withUpsert \in BOOLEAN :
          Update(f, u, withUpsert)
    \/ \E f \in Filters : Delete(f)
    \/ \E f \in Filters : DeleteMany(f)
    \/ \E f \in Filters, o \in FindOneOptions : FindOne(f, o)
    \/ \E f \in Filters, o \in CountOptions : Exists(f, o)
    \/ \E f \in Filters : Count(f)

----------------------------------------------------------------------------
(* NewCrudDAO and CreateIndexes *)

DaoIds == 1..MaxDaos
\* dao.modelRef.CollectionName()
CollectionName == "users"
NoCollection == ""
ErrCreateMany == "createIndexes: connection reset"
\* An engine not constructed yet.
\*   pc          position of the NewCrudDAO call: none, bound, spawned, returned
\*   nIdx        len(dao.modelRef.Indexes())
\*   collection  dao.collection
\*   task        the CreateIndexes goroutine: none, started, creating, done
\*   ctx         the context the goroutine was given
\*   idxCalls    CreateIndexes invocations made by the constructor
\*   built       indexes the store built for the collection
\*   logged      what CreateIndexes logged
\*   got         what GetCollection last returned to a caller
NoDao == [pc |-> "none", nIdx |-> 0, collection |-> NoCollection,
          task |-> "none", ctx |-> "", idxCalls |-> 0, built |-> 0,
          logged |-> "", got |-> NoCollection]

\* dao := &crudDAO[T]{}; dao.collection = db.Collection(...)
NewCrudDAO(d, n) ==
    /\ daos[d].pc = "none"
    /\ daos' = [daos EXCEPT ![d].pc = "bound", ![d].nIdx = n,
                            ![d].collection = CollectionName]
    /\ UNCHANGED <<collection, createLog, crudLog, connVars, decodeVars>>

\* if len(dao.modelRef.Indexes()) > 0 { go dao.CreateIndexes(context.Background(), ...) }
StartIndexesAlways(d) ==
    /\ daos[d].pc = "bound"
    /\ daos' = [daos EXCEPT ![d].pc = "spawned", ![d].task = "started",
                            ![d].ctx = "background", ![d].idxCalls = @ + 1]
    /\ UNCHANGED <<collection, createLog, crudLog, connVars, decodeVars>>

StartIndexes(d) ==
    /\ daos[d].pc = "bound"
    /\ IF daos[d].nIdx > 0
       THEN daos' = [daos EXCEPT ![d].pc = "spawned", ![d].task = "started",
                                 ![d].ctx = "background", ![d].idxCalls = @ + 1]
       ELSE daos' = [daos EXCEPT ![d].pc = "spawned"]
    /\ UNCHANGED <<collection, createLog, crudLog, connVars, decodeVars>>

\* return dao
NewCrudDAOReturn(d) ==
    /\ daos[d].pc = "spawned"
    /\ daos' = [daos EXCEPT ![d].pc = "returned"]
    /\ UNCHANGED <<collection, createLog, crudLog, connVars, decodeVars>>

\* CreateIndexes, in the goroutine: dao.collection.Indexes().CreateMany is sent.
CreateIndexes(d) ==
    /\ daos[d].task = "started"
    /\ daos' = [daos EXCEPT ![d].task = "creating"]
    /\ UNCHANGED <<collection, createLog, crudLog, connVars, decodeVars>>

\* CreateMany answers: on an error CreateIndexes logs it and returns, otherwise
\* it logs the names of the indexes built.
CreateManyDone(d) ==
    /\ daos[d].task = "creating"
    /\ \E e \in {NoErr, ErrCreateMany} :
          daos' = [daos EXCEPT ![d].task = "done",
                               ![d].built = IF e = NoErr THEN daos[d].nIdx ELSE 0,
                               ![d].logged = IF e = NoErr THEN "info" ELSE "error"]
    /\ UNCHANGED <<collection, createLog, crudLog, connVars, decodeVars>>

\* GetCollection(), called on an engine NewCrudDAO returned.
GetCollection(d) ==
    /\ daos[d].pc = "returned"
    /\ daos' = [daos EXCEPT ![d].got = daos[d].collection]
    /\ UNCHANGED <<collection, createLog, crudLog, connVars, decodeVars>>

NewDaoNext ==
    \/ \E d \in DaoIds, n \in 0..MaxIndexes : NewCrudDAO(d, n)
    \/ \E d \in DaoIds : StartIndexes(d)
    \/ \E d \in DaoIds : NewCrudDAOReturn(d)
    \/ \E d \in DaoIds : CreateIndexes(d)
    \/ \E d \in DaoIds : CreateManyDone(d)
    \/ \E d \in DaoIds : GetCollection(d)

----------------------------------------------------------------------------
(* Specifications *)

Init ==
    /\ clientInstance = NoClient
    /\ singleExecution = [done |-> FALSE, m |-> NoCaller]
    /\ cpc = [c \in Callers |-> "idle"]
    /\ clientInstanceError = [c \in Callers |-> NoErr]
    /\ client = [c \in Callers |-> NoClient]
    /\ ranF = [c \in Callers |-> FALSE]
    /\ arrived = [c \in Callers |-> "uninitialized"]
    /\ calls = 0
    /\ connectAttempts = 0
    /\ attemptErr = NoErr
    /\ checkClient = [c \in Callers |-> NoClient]
    /\ dbReturns = {}
    /\ checkReturns = {}
    /\ fpc = "start"
    /\ cur = NoCursor
    /\ fetched = <<>>
    /\ i = -1
    /\ indexedRes = EmptyMap
    /\ err = NilErr
    /\ wg = 0
    /\ mutex = NoTask
    /\ tasks = [k \in {} |-> 0]
    /\ doneOrder = <<>>
    /\ loopLog = NoLoopLog
    /\ cdRet = [returned |-> FALSE, res |-> NilDocs, err |-> NilErr]
    /\ fmRet = [returned |-> FALSE, res |-> NilDocs, err |-> NilErr]
    /\ collection = {}
    /\ createLog = NoCreate
    /\ crudLog = NoCall
    /\ daos = [d \in DaoIds |-> NoDao]

SpecConn == Init /\ [][ConnNext]_vars

SpecDecode == Init /\ [][DecodeNext]_vars

SpecCrud == Init /\ [][CrudNext]_vars

SpecNewDao == Init /\ [][NewDaoNext]_vars

\* One call with a fair scheduler: the calling goroutine and every decode
\* goroutine keep being scheduled, and every fetch, decode and lock
\* acquisition that can complete does.
DecodeFairNext ==
    \/ FindCallShort
    \/ CurNext
    \/ LoopBody
    \/ Dispatch
    \/ Wait
    \/ Collect
    \/ CurErrCheck
    \/ CurClose
    \/ \E t \in DOMAIN tasks : TaskDecode(t)
    \/ \E t \in DOMAIN tasks : TaskErrCheck(t)
    \/ \E t \in DOMAIN tasks : TaskErrSet(t)
    \/ \E t \in DOMAIN tasks : TaskErrSetData(t)
    \/ \E t \in DOMAIN tasks : TaskLock(t)
    \/ \E t \in DOMAIN tasks : TaskStore(t)
    \/ \E t \in DOMAIN tasks : TaskUnlock(t)
    \/ \E t \in DOMAIN tasks : TaskDone(t)

DecodeFairness ==
    /\ WF_vars(CurNext)
    /\ WF_vars(LoopBody)
    /\ WF_vars(Dispatch)
    /\ WF_vars(Wait)
    /\ WF_vars(Collect)
    /\ WF_vars(\E t \in DOMAIN tasks : TaskDecode(t))
    /\ WF_vars(\E t \in DOMAIN tasks : TaskErrCheck(t))
    /\ WF_vars(\E t \in DOMAIN tasks : TaskErrSet(t))
    /\ WF_vars(\E t \in DOMAIN tasks : TaskErrSetData(t))
    /\ WF_vars(\E t \in DOMAIN tasks : TaskLock(t))
    /\ WF_vars(\E t \in DOMAIN tasks : TaskStore(t))
    /\ WF_vars(\E t \in DOMAIN tasks : TaskUnlock(t))
    /\ WF_vars(\E t \in DOMAIN tasks : TaskDone(t))

SpecDecodeFair == Init /\ [][DecodeFairNext]_vars /\ DecodeFairness

----------------------------------------------------------------------------
(* Properties of concurrentDecode, FindMany and Aggregate (SpecDecode) *)

\* Decoding the records one at a time, in order, stopping at the first failure.
RECURSIVE SequentialDecode(_)
SequentialDecode(recs) ==
    IF recs = <<>> THEN [ok |-> TRUE, docs |-> <<>>]
    ELSE LET d == Decode(Head(recs))
             rest == SequentialDecode(Tail(recs))
         IN IF d.ok /\ rest.ok
            THEN [ok |-> TRUE, docs |-> <<d.doc>> \o rest.docs]
            ELSE [ok |-> FALSE, docs |-> <<>>]

AllDecode(recs) == \A k \in 1..Len(recs) : Decode(recs[k]).ok
AnyDispatchedFails == \E t \in DOMAIN tasks : ~Decode(tasks[t].cur).ok

\* C1: when every fetched record decodes, concurrentDecode returns, whatever
\* the completion order of the decode goroutines, exactly the documents of the
\* fetched records in fetch order (the sequential decoding), and a FindMany or
\* Aggregate call over a cursor of N decodable records that neither fails to
\* fetch nor to close returns those N documents in that order.
C1_OrderPreserved ==
    /\ (cdRet.returned /\ AllDecode(fetched)) =>
          /\ cdRet.err = NilErr
          /\ ~cdRet.res.isNil
          /\ Len(cdRet.res.docs) = Len(fetched)
          /\ cdRet.res.docs = SequentialDecode(fetched).docs
    /\ (fmRet.returned /\ cur.obtained /\ AllDecode(cur.recs)
            /\ cur.err = NilErr /\ fmRet.err # ErrClose) =>
          /\ fmRet.err = NilErr
          /\ Len(fmRet.res.docs) = Len(cur.recs)
          /\ fmRet.res.docs = SequentialDecode(cur.recs).docs

\* A call that returned three documents whose decode goroutines finished in
\* the reverse of the fetch order.
C1_Witness ==
    /\ fmRet.returned /\ fmRet.err = NilErr
    /\ cur.recs = <<"a", "b", "a">>
    /\ fmRet.res.docs = <<[value |-> "a"], [value |-> "b"], [value |-> "a"]>>
    /\ doneOrder = <<2, 1, 0>>

\* C2: when a dispatched record fails to decode, concurrentDecode returns a
\* non-nil error with a nil result, and FindMany / Aggregate return (nil, err),
\* in every interleaving and also when several records fail (the error is then
\* one of theirs, or the type word of one with the data word of another).
C2_DecodeFailureAborts ==
    /\ (cdRet.returned /\ AnyDispatchedFails) =>
          (cdRet.err.typ # NoErr /\ cdRet.res.isNil)
    /\ (fmRet.returned /\ AnyDispatchedFails) =>
          (fmRet.err.typ # NoErr /\ fmRet.res.isNil)

\* A call that returned after two goroutines both found err nil and both wrote
\* their decode error, leaving the type word of one with the data word of the
\* other.
C2_Witness ==
    /\ fmRet.returned
    /\ \E t1, t2 \in DOMAIN tasks :
          /\ t1 # t2 /\ tasks[t1].wroteErr /\ tasks[t2].wroteErr
          /\ fmRet.err = GoError(tasks[t1].decodeError.typ, tasks[t2].decodeError.data)
          /\ tasks[t1].decodeError # tasks[t2].decodeError
    /\ fmRet.err.typ # NoErr /\ fmRet.res.isNil

\* C9 as stated: every FindMany / Aggregate call that obtained a cursor has
\* closed it by the time it returns.
C9_CursorClosedOnReturn ==
    (fmRet.returned /\ cur.obtained) => cur.closed

----------------------------------------------------------------------------
(* Properties of the connection singleton (SpecConn) *)

\* C3: when connect and ping succeed, exactly one connect attempt is made and
\* every DB() return carries a nil error and the database handle of the one
\* client instance.
C3_SingleInitialization ==
    (attemptErr = NoErr /\ dbReturns # {}) =>
        /\ connectAttempts = 1
        /\ clientInstance # NoClient
        /\ \A r \in dbReturns :
              r.err = NoErr /\ r.handle = Database(clientInstance)

\* The caller that ran the attempt and a caller that arrived while it was in
\* flight have both returned from DB() with a handle.
C3_Witness ==
    /\ attemptErr = NoErr
    /\ \A c \in Callers : cpc[c] = "idle"
    /\ \E r \in dbReturns : r.ran /\ r.err = NoErr
    /\ \E r \in dbReturns : ~r.ran /\ r.arrived = "connecting" /\ r.err = NoErr

\* C4: after a failed attempt with error E every DB() return, of the caller
\* that ran the attempt, of one that waited for it and of a later one,
\* carries E.
C4_IdenticalFailure ==
    attemptErr # NoErr => \A r \in dbReturns : r.err = attemptErr

\* C5: no DB() call returns while the state is connecting: a caller past
\* initialize, and every return made, sees the attempt resolved to ready or
\* failed.
C5_NoReturnWhileConnecting ==
    /\ \A c \in Callers : cpc[c] = "db_check" => ConnState \in {"ready", "failed"}
    /\ \A r \in dbReturns : r.state \in {"ready", "failed"}

\* A caller that arrived while the attempt was in flight has returned.
C5_Witness ==
    \E r \in dbReturns : r.arrived = "connecting" /\ r.state \in {"ready", "failed"}

\* A step from a ready or failed state keeps the state, the client and the
\* number of attempts.
FrozenStep ==
    ConnState \in {"ready", "failed"} =>
        (/\ ConnState' = ConnState
         /\ clientInstance' = clientInstance
         /\ connectAttempts' = connectAttempts)

\* C6: at most one connect attempt is ever made; a set clientInstance is never
\* written again; once ready or failed the state, the client and the number of
\* attempts never change; and a DB() call begun in the ready state returns the
\* cached client, one begun in the failed state an error.
C6_FrozenAfterInit ==
    /\ [](connectAttempts <= 1)
    /\ [](\A r \in dbReturns :
            /\ r.arrived = "ready" =>
                  (r.err = NoErr /\ r.handle = Database(clientInstance) /\ ~r.ran)
            /\ r.arrived = "failed" =>
                  (r.err # NoErr /\ r.handle = NilDB /\ ~r.ran))
    /\ [][clientInstance # NoClient => clientInstance' = clientInstance]_vars
    /\ [][FrozenStep]_vars

\* A DB() call made after the attempt failed has returned.
C6_Witness ==
    /\ ConnState = "failed"
    /\ \E r \in dbReturns : r.arrived = "failed"

\* C7: a Check() that finds no client returns exactly one error and makes no
\* ping; one that finds the client returns no error when its ping succeeds and
\* an error carrying the ping's failure when it fails. Before initialization
\* no client is found; after a successful one the client is.
C7_CheckReflectsState ==
    \A k \in checkReturns :
        /\ k.client = NoClient =>
              (Len(k.errs) = 1 /\ k.errs[1].msg = ErrClientNil /\ ~k.pinged)
        /\ (k.client # NoClient /\ k.pingErr = NoErr) =>
              (k.pinged /\ k.errs = <<>>)
        /\ (k.client # NoClient /\ k.pingErr # NoErr) =>
              (k.pinged /\ Len(k.errs) >= 1 /\ k.errs[1].cause = k.pingErr)
        /\ k.arrived \in {"uninitialized", "failed"} => k.client = NoClient
        /\ k.arrived = "ready" => k.client # NoClient

\* Check() has returned before initialization, and after it with a failed ping
\* and with a successful one.
C7_Witness ==
    /\ \E k \in checkReturns : k.arrived = "uninitialized"
    /\ \E k \in checkReturns : k.arrived = "ready" /\ k.pingErr # NoErr
    /\ \E k \in checkReturns : k.arrived = "ready" /\ k.pingErr = NoErr

\* A step of a Check() call: a call starts that is not a DB() call (it
\* returns at once when no client is cached), or a Check's ping returns.
CheckStep ==
    \/ /\ calls' # calls
       /\ \A c \in Callers : cpc'[c] = "once_do" => cpc[c] = "once_do"
    \/ \E c \in Callers : cpc[c] = "check_ping" /\ cpc'[c] # "check_ping"

ConnUntouched ==
    /\ clientInstance' = clientInstance
    /\ singleExecution' = singleExecution
    /\ connectAttempts' = connectAttempts

\* C8: no step of Check(), in any state and whatever the ping's outcome,
\* changes clientInstance or the Once, or makes a connect attempt.
C8_CheckLeavesState ==
    [][CheckStep => ConnUntouched]_vars

\* Check() has returned in the uninitialized and the connecting state, and in
\* the ready state after a failed ping.
C8_Witness ==
    /\ \E k \in checkReturns : k.arrived = "uninitialized"
    /\ \E k \in checkReturns : k.arrived = "connecting"
    /\ \E k \in checkReturns : k.arrived = "ready" /\ k.pingErr # NoErr
    /\ ConnState = "ready"

----------------------------------------------------------------------------
(* Properties of Create (SpecCrud) *)

\* C10: Create returns (true, nil) exactly when the insert succeeded,
\* (false, nil) exactly when it was rejected for a duplicate key, and
\* (false, err) with the driver's error otherwise; a duplicate key leaves the
\* stored documents and their number as they were.
C10_CreateOutcome ==
    createLog.called =>
        /\ (createLog.ok /\ createLog.err = NoErr) <=> createLog.driverErr = NoErr
        /\ (~createLog.ok /\ createLog.err = NoErr) <=>
              createLog.driverErr = ErrDuplicateKey
        /\ (~createLog.ok /\ createLog.err # NoErr) <=>
              createLog.driverErr \notin {NoErr, ErrDuplicateKey}
        /\ createLog.err # NoErr => createLog.err = createLog.driverErr
        /\ createLog.driverErr = NoErr =>
              /\ collection = createLog.before \cup {createLog.doc}
              /\ Cardinality(collection) = Cardinality(createLog.before) + 1
        /\ createLog.driverErr = ErrDuplicateKey =>
              /\ collection = createLog.before
              /\ Cardinality(collection) = Cardinality(createLog.before)

\* A Create of a document whose key is taken by a different stored document
\* has returned (false, nil).
C10_Witness ==
    /\ createLog.called
    /\ createLog.driverErr = ErrDuplicateKey
    /\ ~createLog.ok /\ createLog.err = NoErr
    /\ createLog.doc \notin collection
    /\ \E x \in collection : x.key = createLog.doc.key


----------------------------------------------------------------------------
(* Create and Update: timestamps and result flags *)

\* C11: after a successful Create, the stored document carries a created-at
\* time: Create set the field before the insert.
C11_CreateSetsCreatedAt ==
    (createLog.called /\ createLog.ok) =>
        \A d \in collection :
            d.key = createLog.doc.key => d.createdAt # ZeroTime

UpdateCalled == crudLog.op = "Update"
NoMatchBefore == Matches(crudLog.filter, crudLog.before) = {}
FlagsSet(r) ==
    (IF r.NotFound THEN 1 ELSE 0) + (IF r.UniqueError THEN 1 ELSE 0)
        + (IF r.Inserted THEN 1 ELSE 0)

C13_FlagsExclusive ==
    UpdateCalled =>
        /\ FlagsSet(crudLog.ret.res) <= 1
        /\ crudLog.ret.err # NoErr => crudLog.ret.res = NoFlags

C13_Witness ==
    /\ UpdateCalled
    /\ ~NoMatchBefore
    /\ crudLog.ret.res.UniqueError
    /\ crudLog.ret.err = NoErr

\* C14: after an Update that modified or inserted a document, the stored
\* document carries an updated-at time: Update stamped the field.
C14_UpdateStampsUpdatedAt ==
    (/\ UpdateCalled
     /\ crudLog.driver.err = NoErr
     /\ crudLog.driver.modified = 1 \/ crudLog.driver.upserted = 1) =>
        /\ crudLog.driver.target \in collection
        /\ crudLog.driver.target.updatedAt # ZeroTime

----------------------------------------------------------------------------
(* Delete, FindOne, Exists *)

DeleteCalled == crudLog.op = "Delete"

\* C15: a Delete whose filter matches no document returns (false, nil) and
\* leaves the collection as it was; Delete returns (true, nil) exactly when
\* one document was removed, and the collection then lost exactly that one
\* matching document; the no-match condition is never returned as an error.
C15_DeleteOutcome ==
    DeleteCalled =>
        /\ (NoMatchBefore /\ crudLog.driver.err # ErrWrite) =>
               /\ crudLog.ret = [ok |-> FALSE, err |-> NoErr]
               /\ collection = crudLog.before
        /\ (crudLog.ret = [ok |-> TRUE, err |-> NoErr]) <=>
               (collection # crudLog.before)
        /\ collection # crudLog.before =>
               \E d \in Matches(crudLog.filter, crudLog.before) :
                   collection = crudLog.before \ {d}
        /\ crudLog.ret.err # ErrNoDocuments
        /\ crudLog.ret.err # NoErr => crudLog.driver.err = ErrWrite

C15_Witness ==
    /\ DeleteCalled
    /\ crudLog.ret = [ok |-> TRUE, err |-> NoErr]
    /\ Cardinality(Matches(crudLog.filter, crudLog.before)) >= 2
    /\ Cardinality(collection) = Cardinality(crudLog.before) - 1

FindOneCalled == crudLog.op = "FindOne"

\* C16 as stated: FindOne returns (nil, nil) exactly when no document matches
\* the filter; when a document matches it returns a document with a nil error
\* or nil with an error, never a document together with an error.
C16_FindOneOutcome ==
    FindOneCalled =>
        /\ (crudLog.ret.isNil /\ crudLog.ret.err = NoErr) => NoMatchBefore
        /\ (NoMatchBefore /\ crudLog.driver.err # ErrWrite) =>
               (crudLog.ret.isNil /\ crudLog.ret.err = NoErr)
        /\ ~NoMatchBefore =>
               \/ ~crudLog.ret.isNil /\ crudLog.ret.err = NoErr
               \/ crudLog.ret.isNil /\ crudLog.ret.err # NoErr
        /\ ~(~crudLog.ret.isNil /\ crudLog.ret.err # NoErr)

\* C16: FindOne returns (nil, nil) exactly when the store reports no document
\* for the filter under the options, which is when no more documents match
\* than opts skips; otherwise it returns a matching document (as projected)
\* with a nil error, or nil with the query or decode error; never a document
\* together with an error.
C16_FindOneReportsStore ==
    FindOneCalled =>
        /\ (crudLog.ret.isNil /\ crudLog.ret.err = NoErr) <=>
               (crudLog.driver.err = ErrNoDocuments)
        /\ crudLog.driver.err = ErrNoDocuments =>
               Cardinality(Matches(crudLog.filter, crudLog.before))
                   <= crudLog.opts.skip
        /\ ~crudLog.ret.isNil =>
               /\ crudLog.ret.err = NoErr
               /\ \E d \in Matches(crudLog.filter, crudLog.before) :
                      crudLog.ret.doc = Project(d, crudLog.opts)
        /\ crudLog.ret.isNil => crudLog.ret.doc = NoDoc

\* A document matches the filter, opts skips it, and FindOne returns
\* (nil, nil).
C16_Witness ==
    /\ FindOneCalled
    /\ ~NoMatchBefore
    /\ crudLog.opts.skip >= 1
    /\ crudLog.ret = [isNil |-> TRUE, doc |-> NoDoc, err |-> NoErr]

ExistsCalled == crudLog.op = "Exists"
MatchCount == Cardinality(Matches(crudLog.filter, crudLog.before))

\* C17 as stated: when counting does not fail, Exists returns (true, nil)
\* exactly when the number of stored documents matching the filter is
\* positive, and so agrees with Count(filter) > 0 on the same collection; the
\* no-documents condition gives (false, nil) and any other failure gives
\* (false, err).
C17_ExistsOutcome ==
    ExistsCalled =>
        /\ crudLog.driver.err = NoErr =>
               /\ crudLog.ret.err = NoErr
               /\ crudLog.ret.ok <=> (MatchCount > 0)
               /\ crudLog.ret.ok <=>
                      (CountResult([err |-> NoErr, count |-> MatchCount]) > 0)
        /\ crudLog.driver.err = ErrNoDocuments =>
               crudLog.ret = [ok |-> FALSE, err |-> NoErr]
        /\ crudLog.driver.err \notin {NoErr, ErrNoDocuments} =>
               crudLog.ret = [ok |-> FALSE, err |-> crudLog.driver.err]

\* C17: when counting does not fail, Exists returns (true, nil) exactly when
\* the count of the matching documents under its options (those beyond
\* opts.Skip) is positive; with no skip that is when a document matches, and
\* Exists then agrees with Count(filter) > 0; the no-documents condition
\* gives (false, nil) and any other failure gives (false, err).
C17_ExistsCountsUnderOptions ==
    ExistsCalled =>
        /\ crudLog.ret = [ok |-> TRUE, err |-> NoErr] => MatchCount > 0
        /\ crudLog.driver.err = NoErr =>
               /\ crudLog.ret.err = NoErr
               /\ crudLog.ret.ok <=> (CountWith(MatchCount, crudLog.opts) > 0)
               /\ crudLog.ret.ok <=> (MatchCount > crudLog.opts.skip)
               /\ crudLog.opts.skip = 0 =>
                      (crudLog.ret.ok <=>
                          (CountResult([err |-> NoErr, count |-> MatchCount]) > 0))
        /\ crudLog.driver.err = ErrNoDocuments =>
               crudLog.ret = [ok |-> FALSE, err |-> NoErr]
        /\ crudLog.driver.err \notin {NoErr, ErrNoDocuments} =>
               crudLog.ret = [ok |-> FALSE, err |-> crudLog.driver.err]

\* One document matches, opts skips it: the store counts 0 and Exists returns
\* (false, nil) while Count of the same filter is 1.
C17_Witness ==
    /\ ExistsCalled
    /\ MatchCount = 1
    /\ crudLog.opts.skip = 1
    /\ crudLog.driver = [err |-> NoErr, count |-> 0]
    /\ crudLog.ret = [ok |-> FALSE, err |-> NoErr]



----------------------------------------------------------------------------
(* concurrentDecode: the fetch loop, the wait and the shared variables *)

\* C18 as stated: once a decode failure is recorded in the shared err, the
\* fetch loop makes no further cur.Next call and starts no further decode
\* goroutine; otherwise it stops only when the stream is exhausted.
C18_NoFetchAfterFailure ==
    /\ loopLog.nextAfterErr = 0
    /\ loopLog.goAfterErr = 0
    /\ loopLog.ended \in {"", "exhausted", "break"}

\* C18: once a decode failure is recorded in the shared err, the fetch loop
\* makes at most one further cur.Next call and starts at most one further
\* decode goroutine; it ends only when cur.Next returns false (stream
\* exhausted or fetch failed) or when its check finds err set.
C18_AtMostOneFetchAfterFailure ==
    /\ loopLog.nextAfterErr <= 1
    /\ loopLog.goAfterErr <= 1
    /\ loopLog.ended = "break" => err.typ # NoErr
    /\ loopLog.ended = "exhausted" => cur.pos = Len(cur.recs)
    /\ loopLog.ended = "fetch failed" => cur.err # NilErr
    /\ fpc \in {"wait", "collect", "cur_err", "close"} => loopLog.ended # ""

C18_Witness ==
    /\ loopLog.nextAfterErr = 1
    /\ loopLog.goAfterErr = 1
    /\ loopLog.ended = "break"
    /\ Len(fetched) > Cardinality(DOMAIN tasks)

PastWait == cur.obtained /\ fpc \in {"collect", "cur_err", "close", "done"}

\* C19: concurrentDecode reads err and indexedRes for its result, and returns,
\* only after every goroutine it started has finished: past wg.Wait() no
\* goroutine is running.
C19_WaitsForAllTasks ==
    PastWait =>
        /\ wg = 0
        /\ \A t \in DOMAIN tasks : tasks[t].pc = "done"
        /\ Len(doneOrder) = i + 1
        /\ mutex = NoTask

C19_Witness ==
    /\ cdRet.returned
    /\ loopLog.ended = "exhausted"
    /\ Len(doneOrder) = MaxRecords
    /\ doneOrder[MaxRecords] = 0

ErrWriters == {t \in DOMAIN tasks : tasks[t].pc \in {"err_set", "err_set_data"}}
ErrReaders == {t \in DOMAIN tasks : tasks[t].pc = "err_check"}

\* C20: every access to the shared variables is synchronized: a goroutine
\* writes the map only while it holds the mutex, and no write of err is
\* concurrent with another goroutine's, or the fetch loop's, read or write of
\* err (the accesses to err hold no lock).
C20_NoDataRace ==
    /\ \A t \in DOMAIN tasks : tasks[t].pc = "store" => mutex = t
    /\ \A w \in ErrWriters :
           /\ (ErrWriters \cup ErrReaders) \ {w} = {}
           /\ fpc # "body"


----------------------------------------------------------------------------
(* Update: calls that updated nothing *)

\* C21: an Update that the store answered and that updated no document
\* (nothing modified, nothing inserted), whether or not the filter matched
\* and for either value of withUpsert, returns NotFound=true with a nil error.
C21_NotFoundWhenNothingUpdated ==
    (/\ UpdateCalled
     /\ crudLog.driver.err = NoErr
     /\ crudLog.driver.modified = 0
     /\ crudLog.driver.upserted = 0) =>
        /\ crudLog.ret.res.NotFound
        /\ crudLog.ret.err = NoErr


----------------------------------------------------------------------------
(* NewCrudDAO: index creation in the background *)

Constructed(d) == daos[d].pc = "returned"

\* What holds of every engine whether or not its model declares indexes: the
\* goroutine runs on the background context, NewCrudDAO's return does not
\* depend on it, and a failure is logged and leaves the binding as it was.
BackgroundIndexing(d) ==
    /\ daos[d].idxCalls <= 1
    /\ daos[d].task # "none" => daos[d].ctx = "background"
    /\ daos[d].pc # "none" => daos[d].collection = CollectionName
    /\ daos[d].logged = "error" =>
           /\ daos[d].task = "done"
           /\ daos[d].built = 0
    /\ daos[d].got # NoCollection => daos[d].got = CollectionName

\* C22 as stated: every engine NewCrudDAO returned had CreateIndexes invoked
\* exactly once, in the background, with failures only logged.
C22_IndexesOncePerEngine ==
    \A d \in DaoIds :
        /\ BackgroundIndexing(d)
        /\ Constructed(d) => daos[d].idxCalls = 1

\* C22: NewCrudDAO invokes CreateIndexes exactly once when the model declares
\* at least one index and not at all when it declares none; the invocation is
\* a goroutine on the background context that NewCrudDAO does not wait for,
\* and its failure is only logged and leaves the collection binding usable.
C22_IndexesOnceWhenDeclared ==
    \A d \in DaoIds :
        /\ BackgroundIndexing(d)
        /\ Constructed(d) =>
               daos[d].idxCalls = (IF daos[d].nIdx > 0 THEN 1 ELSE 0)
        /\ daos[d].task # "none" => daos[d].nIdx > 0

C22_Witness ==
    /\ \E d \in DaoIds :
           /\ Constructed(d)
           /\ daos[d].task = "creating"
           /\ daos[d].got = CollectionName
    /\ \E d \in DaoIds :
           /\ Constructed(d)
           /\ daos[d].logged = "error"
           /\ daos[d].got = CollectionName


----------------------------------------------------------------------------
(* DB(): shape of every return *)

\* C23: every return of DB(), for the caller that ran the attempt, one that
\* waited for it and one that came later, is either a database handle with a
\* nil error or a nil handle with an error; never (nil, nil).
C23_HandleXorError ==
    \A r \in dbReturns :
        \/ r.handle # NilDB /\ r.err = NoErr
        \/ r.handle = NilDB /\ r.err # NoErr

\* After a failed attempt its runner, a caller that waited and a later caller
\* have all returned.
C23_Witness ==
    /\ \E r \in dbReturns : r.ran /\ r.handle = NilDB /\ r.err = attemptErr
    /\ \E r \in dbReturns :
           ~r.ran /\ r.arrived = "connecting" /\ r.handle = NilDB /\ r.err # NoErr
    /\ \E r \in dbReturns :
           ~r.ran /\ r.arrived = "failed" /\ r.handle = NilDB /\ r.err # NoErr


----------------------------------------------------------------------------
(* FindMany / Aggregate: all or nothing *)

\* C24: every return of FindMany / Aggregate has either a nil error with the
\* documents of all the records of the cursor, in order, or an error with a
\* nil list; a cursor error after some records were decoded gives (nil, err),
\* not the decoded prefix.
C24_AllOrNothing ==
    fmRet.returned =>
        \/ /\ fmRet.err = NilErr
           /\ ~fmRet.res.isNil
           /\ cur.obtained /\ cur.err = NilErr
           /\ Len(fmRet.res.docs) = Len(cur.recs)
           /\ \A k \in 1..Len(cur.recs) :
                  /\ Decode(cur.recs[k]).ok
                  /\ fmRet.res.docs[k] = Decode(cur.recs[k]).doc
        \/ /\ fmRet.err.typ # NoErr
           /\ fmRet.res = NilDocs

\* The cursor failed after two records had been fetched and decoded:
\* concurrentDecode returned the two documents, the call returned (nil, err).
C24_Witness ==
    /\ fmRet.returned
    /\ fmRet.err = ErrCursor
    /\ fmRet.res = NilDocs
    /\ cdRet.err = NilErr
    /\ Len(cdRet.res.docs) = 2
    /\ Len(cur.recs) > 2


----------------------------------------------------------------------------
(* concurrentDecode: termination *)

\* Every goroutine started is counted by the WaitGroup until it finishes, and
\* finishes at most once.
DoneExactlyOnce ==
    /\ wg = Cardinality(DOMAIN tasks) - Len(doneOrder)
    /\ \A j, k \in 1..Len(doneOrder) : doneOrder[j] = doneOrder[k] => j = k
    /\ \A t \in DOMAIN tasks :
           tasks[t].pc = "done" <=> \E k \in 1..Len(doneOrder) : doneOrder[k] = t

\* C25: under a fair scheduler every call that obtained a (finite) cursor
\* sees concurrentDecode return, with or without decode failures: each
\* goroutine calls wg.Done() exactly once on its success and failure paths,
\* so wg.Wait() does not block forever.
C25_EventuallyReturns ==
    /\ []DoneExactlyOnce
    /\ cur.obtained ~> cdRet.returned

\* concurrentDecode returned after one goroutine recorded its decode failure
\* and another, finding err already set, returned without writing it.
C25_Witness ==
    /\ cdRet.returned
    /\ Cardinality(DOMAIN tasks) = MaxFairRecords
    /\ \E t1, t2 \in DOMAIN tasks :
           /\ tasks[t1].wroteErr
           /\ ~tasks[t2].wroteErr
           /\ ~Decode(tasks[t2].cur).ok

====
